---- MODULE Spec2Model ----
(***************************************************************************)
(* Model of trainModel.py: the interactive TEAM-mode matchup query of      *)
(* main().  The CSV produced by load_team_totals() is the input; the query *)
(* filters it by year range, resolves the games between teamA and teamB,   *)
(* aggregates them and prints a summary and two betting recommendations.   *)
(*                                                                         *)
(* Numbers: counts are integers.  Every "/" of the script is a true        *)
(* division yielding an IEEE-754 binary64 value, and the thresholds 0.6,   *)
(* 0.5, 0.4, 0.1 and 0.05 are binary64 literals; both are modelled         *)
(* bit-exactly (FDiv, FAdd, FGt below) as fixed-length bit vectors.  The   *)
(* over/under line is held in tenths of a point (220.5 is 2205).           *)
(***************************************************************************)
EXTENDS Integers, Sequences, FiniteSets, TLC

(***************************************************************************)
(* Bounds of the model.                                                    *)
(***************************************************************************)
\* greatest number of rows of the team-totals CSV
MaxRows == 3
\* greatest total_count of the recommendation specification SpecRec
MaxTotal == 40

(***************************************************************************)
(* binary64 arithmetic on values in [2^-13, 2), and zero.  A value is      *)
(* <<l0, l1, l2, l3>>, standing for l0 + l1/Limb + l2/Limb^2 + l3/Limb^3   *)
(* with 0 <= li < Limb = 2^LimbBits: a fixed-point number with 66          *)
(* fraction bits, which holds every binary64 of that range exactly.  A     *)
(* result keeps MantBits significant bits, rounded to nearest, ties to     *)
(* even; for the values of this range the rounding position falls in l3.   *)
(***************************************************************************)
LimbBits == 22
MantBits == 53
Limb == 4194304

RECURSIVE Pow2(_)
Pow2(n) == IF n = 0 THEN 1 ELSE 2 * Pow2(n - 1)

FZero == <<0, 0, 0, 0>>

\* the quotient 0 / 0 of numpy (a warning, which the script silences, and nan)
FNaN == <<>>

\* position of the leading one bit: the value lies in [2^-Lead, 2^(1-Lead))
Lead(v) ==
    IF v[1] >= 1 THEN 0
    ELSE LimbBits + 1 - Cardinality({k \in 0..(LimbBits - 1) : Pow2(k) <= v[2]})

\* the weight, in units of the last bit of l3, of the last significant bit
Ulp(v) == Pow2(3 * LimbBits - (Lead(v) + MantBits - 1))

\* carries propagated from l3 upward
Norm(v) ==
    LET c3 == v[3] + (v[4] \div Limb)
        c2 == v[2] + (c3 \div Limb)
    IN  <<v[1] + (c2 \div Limb), c2 % Limb, c3 % Limb, v[4] % Limb>>

\* v, with sticky telling that a non-zero part below l3 was cut off
RoundNearestEven(v, sticky) ==
    IF v[1] = 0 /\ v[2] = 0 THEN v
    ELSE LET u    == Ulp(v)
             low  == v[4] % u
             half == u \div 2
             odd  == (v[4] \div u) % 2 = 1
             up   == low > half \/ (low = half /\ (sticky \/ odd))
         IN  IF up THEN Norm(<<v[1], v[2], v[3], v[4] - low + u>>)
             ELSE <<v[1], v[2], v[3], v[4] - low>>

\* a / t as a binary64, for 0 <= a <= t < 2^9; also the value of the decimal
\* literal a/t, which Python rounds correctly as well
FDiv(a, t) ==
    IF t = 0 THEN FNaN
    ELSE LET r0 == a % t
             r1 == (r0 * Limb) % t
             r2 == (r1 * Limb) % t
             r3 == (r2 * Limb) % t
         IN  RoundNearestEven(<<a \div t, (r0 * Limb) \div t, (r1 * Limb) \div t,
                                (r2 * Limb) \div t>>, r3 # 0)

\* x + y as a binary64, for x + y < 2
FAdd(x, y) ==
    IF x = FNaN \/ y = FNaN THEN FNaN
    ELSE RoundNearestEven(Norm(<<x[1] + y[1], x[2] + y[2], x[3] + y[3], x[4] + y[4]>>),
                          FALSE)

\* x > y (False when either is nan)
FGt(x, y) ==
    /\ x # FNaN
    /\ y # FNaN
    /\ \E k \in 1..4 : x[k] > y[k] /\ \A j \in 1..(k - 1) : x[j] = y[j]

\* x < y
FLt(x, y) == FGt(y, x)

(***************************************************************************)
(* The binary64 literals of the recommendation thresholds.                 *)
(***************************************************************************)
Lit_0_6  == FDiv(6, 10)
Lit_0_5  == FDiv(5, 10)
Lit_0_4  == FDiv(4, 10)
Lit_0_1  == FDiv(1, 10)
Lit_0_05 == FDiv(5, 100)

(***************************************************************************)
(* Sample data: the rows a team-totals CSV is drawn from, and the answers  *)
(* typed at the prompts.                                                   *)
(***************************************************************************)
GameIds == {21500001, 21500002}
Teams   == {"BOS", "CLE", "GSW"}

\* TEAM_ID of each abbreviation: load_team_totals sorts by GAME_ID, TEAM_ID
TEAM_ID == [a \in Teams |-> CASE a = "BOS" -> 1 [] a = "CLE" -> 2 [] a = "GSW" -> 3]

\* (SEASON_YEAR, PTS, WL, MATCHUP) of the sample rows
RowStats ==
    { <<2016, 110, "W", "CLE vs. GSW">>,
      <<2016, 100, "W", "CLE @ GSW">>,
      <<2016, 110, "L", "CLE @ GSW">>,
      <<2016, 100, "L", "CLE vs. GSW">>,
      <<2015, 100, "W", "CLE vs. GSW">> }

Rows ==
    { [GAME_ID |-> g, TEAM_ABBREVIATION |-> a, SEASON_YEAR |-> s[1], PTS |-> s[2],
       WL |-> s[3], MATCHUP |-> s[4]] : g \in GameIds, a \in Teams, s \in RowStats }

\* df.sort_values(by=["GAME_ID", "TEAM_ID"]): rows with equal keys in any order
IsSorted(df) ==
    \A i, j \in DOMAIN df :
        i < j => \/ df[i].GAME_ID < df[j].GAME_ID
                 \/ /\ df[i].GAME_ID = df[j].GAME_ID
                    /\ TEAM_ID[df[i].TEAM_ABBREVIATION] <= TEAM_ID[df[j].TEAM_ABBREVIATION]

\* the frames load_team_totals can return
LoadedFrames ==
    {df \in UNION {[1..n -> Rows] : n \in 0..MaxRows} : IsSorted(df)}

ModeInputs      == {"team", "PLAYER ", "nba"}
StartYearInputs == {"2015", "2016", "abc"}
EndYearInputs   == {"2016", ""}
LineInputs      == {"210", "204.5", "x"}
TeamAInputs     == {"cle "}
TeamBInputs     == {"gsw", "CLE"}

\* str.strip().upper() on the sample answers
StripUpper(s) ==
    CASE s = "team"    -> "TEAM"
      [] s = "PLAYER " -> "PLAYER"
      [] s = "nba"     -> "NBA"
      [] s = "cle "    -> "CLE"
      [] s = "gsw"     -> "GSW"
      [] s = "CLE"     -> "CLE"

\* int(s): ok is FALSE where int raises ValueError
ParseInt(s) ==
    CASE s = "2015" -> [ok |-> TRUE, value |-> 2015]
      [] s = "2016" -> [ok |-> TRUE, value |-> 2016]
      [] OTHER      -> [ok |-> FALSE, value |-> 0]

\* float(s) in tenths of a point: ok is FALSE where float raises ValueError
ParseFloat(s) ==
    CASE s = "210"   -> [ok |-> TRUE, value |-> 2100]
      [] s = "204.5" -> [ok |-> TRUE, value |-> 2045]
      [] OTHER       -> [ok |-> FALSE, value |-> 0]

\* "vs." in s
ContainsVs(s) ==
    CASE s = "CLE vs. GSW" -> TRUE
      [] s = "CLE @ GSW"   -> FALSE

(***************************************************************************)
(* Data-frame operations.                                                  *)
(***************************************************************************)
filter_year_range_team(df, lo, hi) ==
    SelectSeq(df, LAMBDA r : r.SEASON_YEAR >= lo /\ r.SEASON_YEAR <= hi)

\* set(df[df["TEAM_ABBREVIATION"] == team]["GAME_ID"])
GamesOf(df, team) ==
    {df[i].GAME_ID : i \in {j \in DOMAIN df : df[j].TEAM_ABBREVIATION = team}}

\* the rows of one GAME_ID, in frame order
Group(df, g) == SelectSeq(df, LAMBDA r : r.GAME_ID = g)

\* set(x["TEAM_ABBREVIATION"]) of a group
TeamSet(rows) == {rows[i].TEAM_ABBREVIATION : i \in DOMAIN rows}

\* a mutation of GroupFilter: a group passes when it contains both teams
GroupFilterSuperset(df, a, b) ==
    SelectSeq(df, LAMBDA r : {a, b} \subseteq TeamSet(Group(df, r.GAME_ID)))

\* groupby("GAME_ID").filter(lambda x: set(x["TEAM_ABBREVIATION"]) == {teamA, teamB})
GroupFilter(df, a, b) ==
    SelectSeq(df, LAMBDA r : TeamSet(Group(df, r.GAME_ID)) = {a, b})

RECURSIVE SumPTS(_)
SumPTS(rows) == IF rows = <<>> THEN 0 ELSE Head(rows).PTS + SumPTS(Tail(rows))

\* the group keys in ascending order (groupby sorts its keys)
RECURSIVE SortedKeys(_)
SortedKeys(S) ==
    IF S = {} THEN <<>>
    ELSE LET m == CHOOSE x \in S : \A y \in S : x <= y
         IN  <<m>> \o SortedKeys(S \ {m})

\* a mutation of OverUnder: a total equal to the line counts as Over
OverUnderInclusive(x, line) == IF 10 * x >= line THEN "Over" ELSE "Under"

\* lambda x: "Over" if x > ou_line else "Under"   (line in tenths)
OverUnder(x, line) == IF 10 * x > line THEN "Over" ELSE "Under"

\* a mutation of LocationOf: an away game gets no Home/Away label
LocationOrNeutral(row) == IF ContainsVs(row.MATCHUP) THEN "Home" ELSE "Neutral"

\* location of determine_winner_and_location
LocationOf(row) == IF ContainsVs(row.MATCHUP) THEN "Home" ELSE "Away"

\* winner of determine_winner_and_location
WinnerOf(teamA_row, a, b) == IF teamA_row.WL = "W" THEN a ELSE b

\* determine_winner_and_location(row), on the group of row["GAME_ID"]:
\* .iloc[0] is the first row of the team in frame order
determine_winner_and_location(rows, a, b) ==
    LET teamA_row == SelectSeq(rows, LAMBDA r : r.TEAM_ABBREVIATION = a)[1]
        teamB_row == SelectSeq(rows, LAMBDA r : r.TEAM_ABBREVIATION = b)[1]
    IN  [Winner |-> WinnerOf(teamA_row, a, b), Location |-> LocationOf(teamA_row),
         Season_Year |-> teamA_row.SEASON_YEAR]

\* the frame "grouped" after lines 140-174: one record per GAME_ID
Grouped(df, a, b, line) ==
    LET keys == SortedKeys({df[i].GAME_ID : i \in DOMAIN df})
    IN  [i \in 1..Len(keys) |->
            LET rows == Group(df, keys[i])
                wl   == determine_winner_and_location(rows, a, b)
            IN  [GAME_ID |-> keys[i],
                 game_total_points |-> SumPTS(rows),
                 SEASON_YEAR |-> rows[1].SEASON_YEAR,
                 OverUnder |-> OverUnder(SumPTS(rows), line),
                 Winner |-> wl.Winner, Location |-> wl.Location,
                 Season_Year |-> wl.Season_Year]]

\* (grouped["Over/Under"] == "Over").sum()
CountOver(g) == Cardinality({i \in DOMAIN g : g[i].OverUnder = "Over"})

\* (grouped["Winner"] == team).sum()
CountWins(g, team) == Cardinality({i \in DOMAIN g : g[i].Winner = team})

\* ((grouped["Winner"] == team) & (grouped["Location"] == loc)).sum()
CountWinsAt(g, team, loc) ==
    Cardinality({i \in DOMAIN g : g[i].Winner = team /\ g[i].Location = loc})

(***************************************************************************)
(* Lines 121-137: the games between the two teams.                         *)
(***************************************************************************)
\* a mutation of CommonGameIds: the games of either team
EitherGameIds(df, a, b) == GamesOf(df, a) \cup GamesOf(df, b)

\* games_teamA.intersection(games_teamB)
CommonGameIds(df, a, b) == GamesOf(df, a) \cap GamesOf(df, b)

\* df_team[df_team["GAME_ID"].isin(common_game_ids)]
IsIn(df, ids) == SelectSeq(df, LAMBDA r : r.GAME_ID \in ids)

\* a mutation of Empty: the check is never taken
NeverEmpty(df) == FALSE

\* df.empty
Empty(df) == Len(df) = 0

(***************************************************************************)
(* Lines 205-242: the recommendations.                                     *)
(***************************************************************************)
\* a mutation of OuRecommendation: 0.6 itself is strong
OuRecommendationInclusive(p) ==
    IF ~FLt(p, Lit_0_6) THEN <<"Over", "strong">>
    ELSE IF FGt(p, Lit_0_5) THEN <<"Over", "moderate">>
    ELSE IF FLt(p, Lit_0_4) THEN <<"Under", "strong">>
    ELSE IF FLt(p, Lit_0_5) THEN <<"Under", "moderate">>
    ELSE <<"Neutral", "no clear trend">>

\* <<ou_recommendation, ou_confidence>>
OuRecommendation(p) ==
    IF FGt(p, Lit_0_6) THEN <<"Over", "strong">>
    ELSE IF FGt(p, Lit_0_5) THEN <<"Over", "moderate">>
    ELSE IF FLt(p, Lit_0_4) THEN <<"Under", "strong">>
    ELSE IF FLt(p, Lit_0_5) THEN <<"Under", "moderate">>
    ELSE <<"Neutral", "no clear trend">>

NoAdvantage == "Neither team has a clear advantage"

\* a mutation of WinRecommendation: >= in place of >
WinRecommendationInclusive(wa, wb, n, a, b) ==
    IF ~FLt(FDiv(wa, n), FAdd(FDiv(wb, n), Lit_0_1)) THEN <<a, "high">>
    ELSE IF ~FLt(FDiv(wb, n), FAdd(FDiv(wa, n), Lit_0_1)) THEN <<b, "high">>
    ELSE IF ~FLt(FDiv(wa, n), FAdd(FDiv(wb, n), Lit_0_05)) THEN <<a, "moderate">>
    ELSE IF ~FLt(FDiv(wb, n), FAdd(FDiv(wa, n), Lit_0_05)) THEN <<b, "moderate">>
    ELSE <<NoAdvantage, "low">>

\* <<win_recommendation, win_confidence>>
WinRecommendation(wa, wb, n, a, b) ==
    IF FGt(FDiv(wa, n), FAdd(FDiv(wb, n), Lit_0_1)) THEN <<a, "high">>
    ELSE IF FGt(FDiv(wb, n), FAdd(FDiv(wa, n), Lit_0_1)) THEN <<b, "high">>
    ELSE IF FGt(FDiv(wa, n), FAdd(FDiv(wb, n), Lit_0_05)) THEN <<a, "moderate">>
    ELSE IF FGt(FDiv(wb, n), FAdd(FDiv(wa, n), Lit_0_05)) THEN <<b, "moderate">>
    ELSE <<NoAdvantage, "low">>

(***************************************************************************)
(* State: the locals of main(), the lines printed so far, and whether a    *)
(* division by zero has been evaluated.                                    *)
(***************************************************************************)
VARIABLES pc, mode, start_year, end_year, ou_line, df_team, teamA, teamB,
          common_game_ids, df_matchups, grouped, over_count, total_count,
          prob_over, teamA_wins, teamB_wins, home_wins_teamA, away_wins_teamA,
          home_wins_teamB, away_wins_teamB, ou_recommendation, ou_confidence,
          win_recommendation, win_confidence, printed, zero_division

params  == <<mode, start_year, end_year, ou_line>>
frames  == <<df_team, teamA, teamB, common_game_ids, df_matchups>>
summary == <<grouped, over_count, total_count, prob_over, teamA_wins, teamB_wins,
             home_wins_teamA, away_wins_teamA, home_wins_teamB, away_wins_teamB>>
advice  == <<ou_recommendation, ou_confidence, win_recommendation, win_confidence>>
vars    == <<pc, params, frames, summary, advice, printed, zero_division>>

Init ==
    /\ pc = "start"
    /\ mode = "" /\ start_year = 0 /\ end_year = 0 /\ ou_line = 0
    /\ df_team = <<>> /\ teamA = "" /\ teamB = "" /\ common_game_ids = {}
    /\ df_matchups = <<>>
    /\ grouped = <<>> /\ over_count = 0 /\ total_count = 0 /\ prob_over = FZero
    /\ teamA_wins = 0 /\ teamB_wins = 0
    /\ home_wins_teamA = 0 /\ away_wins_teamA = 0
    /\ home_wins_teamB = 0 /\ away_wins_teamB = 0
    /\ ou_recommendation = "" /\ ou_confidence = ""
    /\ win_recommendation = "" /\ win_confidence = ""
    /\ printed = <<>>
    /\ zero_division = FALSE

\* print(...) and return
Fail(msg) == printed' = Append(printed, msg) /\ pc' = "done"

\* lines 80-104: mode, year range and line are read; PLAYER mode returns
ReadParams ==
    /\ pc = "start"
    /\ \E m \in ModeInputs, sy \in StartYearInputs, ey \in EndYearInputs, ln \in LineInputs :
        /\ mode' = StripUpper(m)
        /\ IF mode' \notin {"PLAYER", "TEAM"}
           THEN Fail("ERROR invalid mode") /\ UNCHANGED <<start_year, end_year, ou_line>>
           ELSE IF ~ParseInt(sy).ok
           THEN Fail("ERROR invalid years") /\ UNCHANGED <<start_year, end_year, ou_line>>
           ELSE IF ~ParseInt(ey).ok
           THEN /\ Fail("ERROR invalid years")
                /\ start_year' = ParseInt(sy).value
                /\ UNCHANGED <<end_year, ou_line>>
           ELSE /\ start_year' = ParseInt(sy).value
                /\ end_year' = ParseInt(ey).value
                /\ IF ~ParseFloat(ln).ok
                   THEN Fail("ERROR invalid line") /\ UNCHANGED ou_line
                   ELSE /\ ou_line' = ParseFloat(ln).value
                        /\ IF mode' = "PLAYER"
                           THEN Fail("INFO player mode")
                           ELSE pc' = "team" /\ UNCHANGED printed
    /\ UNCHANGED <<frames, summary, advice, zero_division>>

\* lines 109-113: the CSV is loaded and filtered to the year range
LoadTeamTotals ==
    /\ pc = "team"
    /\ \E df \in LoadedFrames :
        /\ df_team' = filter_year_range_team(df, start_year, end_year)
        /\ IF Empty(df_team')
           THEN Fail("ERROR no team data")
           ELSE pc' = "loaded" /\ UNCHANGED printed
    /\ UNCHANGED <<params, teamA, teamB, common_game_ids, df_matchups, summary, advice,
                   zero_division>>

\* lines 116-137: the two teams are read and their common games selected
ResolveMatchups ==
    /\ pc = "loaded"
    /\ \E a \in TeamAInputs, b \in TeamBInputs :
        /\ teamA' = StripUpper(a)
        /\ teamB' = StripUpper(b)
        /\ common_game_ids' = CommonGameIds(df_team, teamA', teamB')
        /\ IF common_game_ids' = {}
           THEN Fail("ERROR no games found") /\ UNCHANGED df_matchups
           ELSE /\ df_matchups' = GroupFilter(IsIn(df_team, common_game_ids'), teamA', teamB')
                /\ IF Empty(df_matchups')
                   THEN Fail("ERROR no valid matchups")
                   ELSE pc' = "resolved" /\ UNCHANGED printed
    /\ UNCHANGED <<params, df_team, summary, advice, zero_division>>

\* lines 140-185: one record per game, and the counts over them
Aggregate ==
    /\ pc = "resolved"
    /\ grouped' = Grouped(df_matchups, teamA, teamB, ou_line)
    /\ over_count' = CountOver(grouped')
    /\ total_count' = Len(grouped')
    /\ prob_over' = IF total_count' > 0 THEN FDiv(over_count', total_count') ELSE FZero
    /\ teamA_wins' = CountWins(grouped', teamA)
    /\ teamB_wins' = CountWins(grouped', teamB)
    /\ home_wins_teamA' = CountWinsAt(grouped', teamA, "Home")
    /\ away_wins_teamA' = CountWinsAt(grouped', teamA, "Away")
    /\ home_wins_teamB' = CountWinsAt(grouped', teamB, "Home")
    /\ away_wins_teamB' = CountWinsAt(grouped', teamB, "Away")
    /\ pc' = "aggregated"
    /\ UNCHANGED <<params, frames, advice, printed, zero_division>>

\* lines 188-200: the summary; lines 193-194 divide by total_count
PrintSummary ==
    /\ pc = "aggregated"
    /\ printed' = Append(printed, "SUMMARY")
    /\ zero_division' = (zero_division \/ total_count = 0)
    /\ pc' = "summarised"
    /\ UNCHANGED <<params, frames, summary, advice>>

\* lines 203-247: the two recommendations; lines 228-237 divide by total_count
Recommend ==
    /\ pc = "summarised"
    /\ LET ou  == OuRecommendation(prob_over)
           win == WinRecommendation(teamA_wins, teamB_wins, total_count, teamA, teamB)
       IN  /\ ou_recommendation' = ou[1]
           /\ ou_confidence' = ou[2]
           /\ win_recommendation' = win[1]
           /\ win_confidence' = win[2]
           /\ printed' = printed \o
                  << IF ou[1] # "Neutral" THEN "OU bet" ELSE "OU hold",
                     IF win[1] \in {teamA, teamB} THEN "WIN bet" ELSE "WIN none" >>
    /\ zero_division' = (zero_division \/ total_count = 0)
    /\ pc' = "recommended"
    /\ UNCHANGED <<params, frames, summary>>

DetailInputs == {"Y ", "no"}

\* lines 250-259: the optional table of games
ShowDetails ==
    /\ pc = "recommended"
    /\ \E ans \in DetailInputs :
        printed' = IF ans = "Y " THEN Append(printed, "DETAILS") ELSE printed
    /\ pc' = "done"
    /\ UNCHANGED <<params, frames, summary, advice, zero_division>>

Next ==
    \/ ReadParams
    \/ LoadTeamTotals
    \/ ResolveMatchups
    \/ Aggregate
    \/ PrintSummary
    \/ Recommend
    \/ ShowDetails

Spec == Init /\ [][Next]_vars

(***************************************************************************)
(* The recommendation step on its own: the state before line 203 for any   *)
(* counts a query over total_count accepted games of two distinct teams    *)
(* can have produced, with prob_over as line 151 computes it.              *)
(***************************************************************************)
InitRec ==
    /\ pc = "summarised"
    /\ mode = "TEAM" /\ start_year = 2016 /\ end_year = 2016 /\ ou_line = 2100
    /\ df_team = <<>> /\ teamA = "CLE" /\ teamB = "GSW" /\ common_game_ids = {}
    /\ df_matchups = <<>>
    /\ grouped = <<>>
    /\ total_count \in 1..MaxTotal
    /\ over_count \in 0..total_count
    /\ prob_over = IF total_count > 0 THEN FDiv(over_count, total_count) ELSE FZero
    /\ teamA_wins \in 0..total_count
    /\ teamB_wins = total_count - teamA_wins
    /\ home_wins_teamA = 0 /\ away_wins_teamA = teamA_wins
    /\ home_wins_teamB = 0 /\ away_wins_teamB = teamB_wins
    /\ ou_recommendation = "" /\ ou_confidence = ""
    /\ win_recommendation = "" /\ win_confidence = ""
    /\ printed = <<"SUMMARY">>
    /\ zero_division = FALSE

NextRec == Recommend

SpecRec == InitRec /\ [][NextRec]_vars

(***************************************************************************)
(* Properties.                                                             *)
(***************************************************************************)
Printed(msg) == \E i \in DOMAIN printed : printed[i] = msg

\* the query has reached the summary
Summarised == Printed("SUMMARY")

\* lines 140-185 have run
Aggregated == pc \in {"aggregated", "summarised", "recommended"} \/ Summarised

\* the two team codes have been read (lines 116-117)
TeamsRead == pc \in {"resolved", "aggregated", "summarised", "recommended"}
             \/ Printed("ERROR no games found") \/ Printed("ERROR no valid matchups")
             \/ Summarised

\* the filtered rows of game g
RowsOf(g) == {i \in DOMAIN df_team : df_team[i].GAME_ID = g}

\* the distinct team codes among the filtered rows of game g
CodesOf(g) == {df_team[i].TEAM_ABBREVIATION : i \in RowsOf(g)}

\* the games in which both teams have a row
BothIn == {g \in GameIds : teamA \in CodesOf(g) /\ teamB \in CodesOf(g)}

\* the games with a record in the matchup set
Accepted == {df_matchups[i].GAME_ID : i \in DOMAIN df_matchups}

\* the rows of the matchup set that belong to record i of grouped
RecordRows(i) == {k \in DOMAIN df_matchups : df_matchups[k].GAME_ID = grouped[i].GAME_ID}

\* C1: in every query that reaches the summary, teamA_wins + teamB_wins equals
\* total_games, the number of accepted games.
C1_WinsSumToTotal ==
    Summarised => teamA_wins + teamB_wins = total_count

\* C2: in every query that reaches the summary, each team's home wins and away
\* wins add up to its wins, and every accepted game's location is Home or Away.
C2_HomeAwaySplit ==
    Aggregated =>
        /\ home_wins_teamA + away_wins_teamA = teamA_wins
        /\ home_wins_teamB + away_wins_teamB = teamB_wins
        /\ \A i \in DOMAIN grouped : grouped[i].Location \in {"Home", "Away"}

C2_Witness ==
    /\ Summarised
    /\ teamA # teamB
    /\ away_wins_teamB = 1
    /\ teamB_wins = 1

ParamsRead == mode = "TEAM" /\ pc # "start" /\ ~Printed("ERROR invalid years")
              /\ ~Printed("ERROR invalid line")

C4_NoMatchupsNoSummary ==
    /\ (TeamsRead /\ BothIn = {}) =>
          /\ pc = "done"
          /\ printed = <<"ERROR no games found">>
          /\ grouped = <<>> /\ total_count = 0
          /\ ou_recommendation = "" /\ win_recommendation = ""
    /\ (ParamsRead /\ pc # "team" /\ df_team = <<>>) =>
          /\ pc = "done"
          /\ printed = <<"ERROR no team data">>
          /\ grouped = <<>> /\ total_count = 0
          /\ ou_recommendation = "" /\ win_recommendation = ""

C4_Witness ==
    /\ TeamsRead
    /\ BothIn = {}
    /\ teamA # teamB
    /\ \E i, j \in DOMAIN df_team :
          df_team[i].TEAM_ABBREVIATION = teamA /\ df_team[j].TEAM_ABBREVIATION = teamB

\* C5: the over/under recommendation follows the table on the exact value of
\* over_count / total_games: above 0.6 Over strong; above 0.5 up to 0.6 Over
\* moderate; below 0.4 Under strong; from 0.4 to below 0.5 Under moderate;
\* exactly 0.5 Neutral; and exactly one row applies.
C5_OverUnderTable ==
    (pc = "recommended" /\ total_count >= 1 /\ over_count <= total_count) =>
        LET o == over_count
            n == total_count
            r == <<ou_recommendation, ou_confidence>>
            rows == << 10 * o > 6 * n,
                       2 * o > n /\ 10 * o <= 6 * n,
                       10 * o < 4 * n,
                       10 * o >= 4 * n /\ 2 * o < n,
                       2 * o = n >>
        IN  /\ rows[1] => r = <<"Over", "strong">>
            /\ rows[2] => r = <<"Over", "moderate">>
            /\ rows[3] => r = <<"Under", "strong">>
            /\ rows[4] => r = <<"Under", "moderate">>
            /\ rows[5] => r = <<"Neutral", "no clear trend">>
            /\ Cardinality({k \in 1..5 : rows[k]}) = 1

C5_Witness ==
    /\ pc = "recommended"
    /\ 10 * over_count = 6 * total_count
    /\ ou_recommendation = "Over"
    /\ ou_confidence = "moderate"

\* C6: with d the exact difference of the two win rates and the wins adding
\* up to total_games, the win recommendation is teamA high when d > 0.10, teamB
\* high when d < -0.10, teamA moderate when 0.05 < d <= 0.10, teamB moderate
\* when -0.10 <= d < -0.05, and no clear advantage, low, otherwise.
C6_WinTable ==
    (pc = "recommended" /\ total_count >= 1 /\ teamA_wins + teamB_wins = total_count) =>
        LET n == total_count
            e == teamA_wins - teamB_wins
            r == <<win_recommendation, win_confidence>>
        IN  /\ 10 * e > n => r = <<teamA, "high">>
            /\ 10 * e < -n => r = <<teamB, "high">>
            /\ (20 * e > n /\ 10 * e <= n) => r = <<teamA, "moderate">>
            /\ (10 * e >= -n /\ 20 * e < -n) => r = <<teamB, "moderate">>
            /\ (20 * e <= n /\ 20 * e >= -n) => r = <<NoAdvantage, "low">>

C6_Witness ==
    /\ pc = "recommended"
    /\ teamA_wins + teamB_wins = total_count
    /\ 10 * (teamA_wins - teamB_wins) = total_count
    /\ win_recommendation = teamA
    /\ win_confidence = "moderate"

\* C7: an accepted game is Over exactly when its total points are strictly
\* greater than the line; a total equal to the line is Under and not counted
\* in over_count.
C7_OverIffStrictlyGreater ==
    Aggregated =>
        /\ \A i \in DOMAIN grouped :
              grouped[i].OverUnder =
                  IF 10 * grouped[i].game_total_points > ou_line THEN "Over" ELSE "Under"
        /\ over_count =
              Cardinality({i \in DOMAIN grouped : 10 * grouped[i].game_total_points > ou_line})

C7_Witness ==
    /\ Summarised
    /\ \E i \in DOMAIN grouped :
          /\ 10 * grouped[i].game_total_points = ou_line
          /\ grouped[i].OverUnder = "Under"
    /\ over_count = 0

\* C8: every matchup record is built from exactly two rows sharing its
\* game_id; a game with duplicate rows of teamA or teamB is rejected.
\* (Stated for two distinct team codes.)
C8_ExactlyTwoRows ==
    (Aggregated /\ teamA # teamB) =>
        \A i \in DOMAIN grouped : Cardinality(RecordRows(i)) = 2

\* C9: the winner of every accepted game is a team whose own row for that game
\* carries the winning result.  (Stated for two distinct team codes and games
\* of exactly two rows.)
C9_WinnerRowCarriesWin ==
    (Aggregated /\ teamA # teamB) =>
        \A i \in DOMAIN grouped :
            Cardinality(RecordRows(i)) = 2 =>
                \E k \in RecordRows(i) :
                    /\ df_matchups[k].TEAM_ABBREVIATION = grouped[i].Winner
                    /\ df_matchups[k].WL = "W"

\* C10: no probability computation divides by zero: wherever prob_over, the
\* win rates of the report or the win-rate comparisons are evaluated,
\* total_games >= 1 (or the value is 0.0 without a division).
C10_NoZeroDivision ==
    /\ ~zero_division
    /\ pc \in {"aggregated", "summarised"} => total_count >= 1
    /\ prob_over # FNaN

C10_Witness ==
    /\ pc = "recommended"
    /\ total_count >= 1
    /\ ~zero_division
    /\ Printed("WIN bet")

====
